---- MODULE Spec2Model ----
(***************************************************************************)
(* A model of scripts/process_email_dumps.py (R.A.T.S. version 7.26):      *)
(* identify_source, parse_email and process_email_dumps.                   *)
(*                                                                         *)
(* A document is a sequence of lines.  A line is one of the concrete       *)
(* strings of AllLines; every regular expression of the source is modelled *)
(* by the set of those strings it matches (re.search / re.match with       *)
(* re.IGNORECASE as in the source), with the alternative that matches      *)
(* named in a comment.  No line of AllLines has leading or trailing white  *)
(* space, so line.strip() leaves each of them as it is.                    *)
(***************************************************************************)
EXTENDS Naturals, Sequences, FiniteSets

VARIABLES pe, ids, batch, cmb

vars == <<pe, ids, batch, cmb>>

(***************************************************************************)
(* Bounds of the model.                                                    *)
(***************************************************************************)
MaxLines == 4

MaxClassifyLines == 2

MaxFiles == 2

MaxSectionLines == 2

MaxCalls == 3

MaxRuns == 2

MaxDumps == 2
\* lines of a long document after its filler lines
MaxTail == 3

(***************************************************************************)
(* The lines documents are made of.                                        *)
(***************************************************************************)
Separator == "--- glassdoor_email_2.txt ---"

ParseLines ==
  { "Job alerts", "Data Analyst", "Senior Engineer (Remote)",
    "Développeur Senior", "Remote", "New York, NY", "$50K - $60K",
    "Skip to content", Separator }

\* lines around the English gate
GateLines ==
  { "Job alerts", "Data Analyst", "Ingénieur Logiciel", "Développeur Senior",
    "Développeur Senior (Remote)" }

\* lines of two-section documents
TitleLines == {"Job alerts", "Data Analyst", "Senior Engineer (Remote)"}

ScenarioLines ==
  { "Senior Software Engineer", "Bachelor's degree required",
    "Master's degree required", "Ingénieur Logiciel", "place Bangkok",
    "9:30 AM", "Remote 9:30 AM", "2 weeks of paid vacation",
    "Remote Data Analyst", "Hello world", "12345",
    "Your job alert for Data Analyst has been created",
    "Wed, Aug 6, 9:30 AM (2 days ago)", "Today" }

ClassifyLines ==
  { "careers-noreply@google.com", "jobs-noreply@linkedin.com",
    "no-reply@glassdoor.com", "alert@indeed.com",
    "Copyright 2025 Glassdoor LLC", "LinkedIn Corporation",
    "Copyright 2025 Indeed",
    "Google is proud to be an equal opportunity workplace",
    "Search on Google", "Share on LinkedIn", "Hello world" }

Headers ==
  { "", "careers-noreply@google.com", "jobs-noreply@linkedin.com",
    "From: jobs@glassdoor.com", "alert@indeed.com, jobs@glassdoor.com",
    "someone@example.com" }

AllLines ==
  ParseLines \cup GateLines \cup ScenarioLines \cup ClassifyLines \cup Headers

Providers == {"Glassdoor", "LinkedIn", "Indeed", "GoogleCareers"}

None == "None"

(***************************************************************************)
(* Bounded sequences.                                                      *)
(***************************************************************************)
SeqUpTo(S, n) == UNION { [1..k -> S] : k \in 0..n }

(***************************************************************************)
(* The regular expressions of the source, each as the set of lines of      *)
(* AllLines it matches.                                                    *)
(***************************************************************************)
\* SENDER_PATTERNS[source], searched in a text
SENDER_PATTERNS(src, text) ==
  CASE src = "GoogleCareers" -> text \in {"careers-noreply@google.com"}
    [] src = "LinkedIn" -> text \in {"jobs-noreply@linkedin.com"}
    [] src = "Glassdoor" ->
         text \in { "no-reply@glassdoor.com", "From: jobs@glassdoor.com",
                    "alert@indeed.com, jobs@glassdoor.com" }
    [] src = "Indeed" ->
         text \in {"alert@indeed.com", "alert@indeed.com, jobs@glassdoor.com"}

\* SOURCES[source], searched in a text ("." does not match a line break, so a
\* footer is found in a document exactly when one of its lines holds it)
SOURCES(src, text) ==
  CASE src = "Glassdoor" -> text \in {"Copyright 2025 Glassdoor LLC"}
    [] src = "LinkedIn" -> text \in {"LinkedIn Corporation"}
    [] src = "Indeed" -> text \in {"Copyright 2025 Indeed"}
    [] src = "GoogleCareers" ->
         text \in { "Google is proud to be an equal opportunity workplace",
                    "careers-noreply@google.com" }

\* the order in which a dict of the source is iterated (insertion order)
SENDER_ORDER == <<"GoogleCareers", "LinkedIn", "Glassdoor", "Indeed">>

SOURCES_ORDER == <<"Glassdoor", "LinkedIn", "Indeed", "GoogleCareers">>

\* r'\bGoogle\b'
google_keyword(text) ==
  text \in { "Google is proud to be an equal opportunity workplace",
             "careers-noreply@google.com", "Search on Google" }

\* r'\bLinkedIn\b'
linkedin_keyword(text) ==
  text \in { "LinkedIn Corporation", "jobs-noreply@linkedin.com",
             "Share on LinkedIn" }

\* r'--- glassdoor_email_\d+\.txt ---'
separator(line) ==
  line \in { "--- glassdoor_email_1.txt ---", Separator,
             "--- glassdoor_email_3.txt ---" }

\* 'glassdoor_email_1.txt' in filename
is_combined(filename) == filename \in {"glassdoor_email_1.txt"}

\* the noise phrases of the cleaned_lines filter: "Skip to content",
\* "Your job alert", "has been created"
noise_phrase(line) ==
  line \in { "Skip to content",
             "Your job alert for Data Analyst has been created" }

\* r'[\w\.-]+@[\w\.-]+\.\w+' searched in a line
email_address(line) ==
  line \in { "careers-noreply@google.com", "jobs-noreply@linkedin.com",
             "no-reply@glassdoor.com", "alert@indeed.com",
             "From: jobs@glassdoor.com",
             "alert@indeed.com, jobs@glassdoor.com", "someone@example.com" }

\* .group() of that search: the first address of the line
email_group(line) ==
  CASE line = "From: jobs@glassdoor.com" -> "jobs@glassdoor.com"
    [] line = "alert@indeed.com, jobs@glassdoor.com" -> "alert@indeed.com"
    [] OTHER -> line

\* re.match of the address-or-timestamp pattern at the start of a line
subject_excluded(line) ==
  line \in { "careers-noreply@google.com", "jobs-noreply@linkedin.com",
             "no-reply@glassdoor.com", "alert@indeed.com",
             "alert@indeed.com, jobs@glassdoor.com", "someone@example.com",
             "Wed, Aug 6, 9:30 AM (2 days ago)" }

\* the job-related keywords of the primary subject pass: job, alert,
\* opportunity (Project, Program, Assistant match none of the lines)
subject_keyword(line) ==
  line \in { "Job alerts",
             "Google is proud to be an equal opportunity workplace",
             "careers-noreply@google.com", "jobs-noreply@linkedin.com",
             "alert@indeed.com", "From: jobs@glassdoor.com",
             "alert@indeed.com, jobs@glassdoor.com",
             "Your job alert for Data Analyst has been created" }

\* the keywords of the subject fallback pass
subject_keyword_fallback(line) ==
  line \in { "Job alerts",
             "Google is proud to be an equal opportunity workplace",
             "careers-noreply@google.com", "jobs-noreply@linkedin.com",
             "alert@indeed.com", "From: jobs@glassdoor.com",
             "alert@indeed.com, jobs@glassdoor.com",
             "Your job alert for Data Analyst has been created" }

\* the date shapes of the primary pass (re.match)
date_shape(line) == line \in {"Wed, Aug 6, 9:30 AM (2 days ago)", "Today"}

\* the date shapes of the fallback pass (re.search)
date_shape_fallback(line) ==
  line \in {"9:30 AM", "Remote 9:30 AM", "Wed, Aug 6, 9:30 AM (2 days ago)"}

\* start_str: "Job alerts"
start_str(line) == line \in {"Job alerts"}

\* position_pattern: Analyst, Engineer, Senior (each followed by \b)
position_pattern(line) ==
  line \in { "Data Analyst", "Senior Engineer (Remote)",
             "Développeur Senior", "Développeur Senior (Remote)",
             "Senior Software Engineer", "Remote Data Analyst",
             "Your job alert for Data Analyst has been created" }

\* the position pattern of the GoogleCareers fallback pass:
\* \b[A-Z][a-zA-Z\s]* before Analyst or Engineer
fallback_position_pattern(line) ==
  line \in { "Data Analyst", "Senior Engineer (Remote)",
             "Senior Software Engineer", "Remote Data Analyst",
             "Your job alert for Data Analyst has been created" }

\* all(ord(c) < 128 or c in '-/&[]' for c in line) and
\* not re.search(r'[^\x00-\x7F]', line): no character of the line is outside
\* ASCII
is_english(line) ==
  line \notin { "Développeur Senior", "Développeur Senior (Remote)",
                "Ingénieur Logiciel" }

\* location_pattern: Remote, New York, place\s+.*, and the alternative
\* \b[A-Z][a-zA-Z\s]*(?:,\s*[A-Z]{2})?\b which, under re.IGNORECASE, any run
\* of ASCII letters between two word boundaries matches
location_pattern(line) ==
  line \in (AllLines \ {"", "$50K - $60K", "12345"})

\* r'\d{1,2}:\d{2}\s*(?:AM|PM)'
clock_time(line) ==
  line \in {"9:30 AM", "Remote 9:30 AM", "Wed, Aug 6, 9:30 AM (2 days ago)"}

\* qualifications_pattern: Bachelor's degree, Master's degree, Required,
\* \$[0-9]+K\s*-\s*\$[0-9]+K
qualifications_pattern(line) ==
  line \in { "$50K - $60K", "Bachelor's degree required",
             "Master's degree required" }

\* r'weeks of paid vacation'
paid_vacation(line) == line \in {"2 weeks of paid vacation"}

\* r'\bRemote\b|\(Remote\)|Hybrid|Remote eligible'
remote_signal(line) ==
  line \in { "Remote", "Senior Engineer (Remote)", "Remote 9:30 AM",
             "Remote Data Analyst", "Développeur Senior (Remote)" }

\* line.replace('place ', '')
replace_place(line) == IF line = "place Bangkok" THEN "Bangkok" ELSE line

(***************************************************************************)
(* identify_source(content, from_header).  content is the document's       *)
(* lines; a pattern is found in it when one of its lines holds it.         *)
(***************************************************************************)
Min(S) == CHOOSE x \in S : \A y \in S : x <= y

\* the first key of a dict, in iteration order, among the keys whose pattern
\* matched
FirstKey(order, matched) ==
  LET hits == {k \in 1..Len(order) : order[k] \in matched}
  IN IF hits = {} THEN None ELSE order[Min(hits)]

\* the providers whose sender pattern is found in the text
SenderMatches(content) ==
  {s \in Providers : \E k \in 1..Len(content) : SENDER_PATTERNS(s, content[k])}

\* the providers whose footer pattern is found in the text
FooterMatches(content) ==
  {s \in Providers : \E k \in 1..Len(content) : SOURCES(s, content[k])}

\* identify_source with the footers tried before the sender patterns in the body
identify_source_FooterFirst(content, from_header) ==
  LET by_header ==
        IF from_header # ""
        THEN FirstKey(SENDER_ORDER,
                      {s \in Providers : SENDER_PATTERNS(s, from_header)})
        ELSE None
      by_sender ==
        FirstKey(SENDER_ORDER, SenderMatches(content))
      by_footer ==
        FirstKey(SOURCES_ORDER, FooterMatches(content))
  IN IF by_header # None THEN by_header
     ELSE IF by_footer # None THEN by_footer
     ELSE IF by_sender # None THEN by_sender
     ELSE IF \E k \in 1..Len(content) : google_keyword(content[k])
     THEN "GoogleCareers"
     ELSE IF \E k \in 1..Len(content) : linkedin_keyword(content[k])
     THEN "LinkedIn"
     ELSE None

identify_source(content, from_header) ==
  LET by_header ==
        IF from_header # ""
        THEN FirstKey(SENDER_ORDER,
                      {s \in Providers : SENDER_PATTERNS(s, from_header)})
        ELSE None
      by_sender ==
        FirstKey(SENDER_ORDER, SenderMatches(content))
      by_footer ==
        FirstKey(SOURCES_ORDER, FooterMatches(content))
  IN IF by_header # None THEN by_header
     ELSE IF by_sender # None THEN by_sender
     ELSE IF by_footer # None THEN by_footer
     ELSE IF \E k \in 1..Len(content) : google_keyword(content[k])
     THEN "GoogleCareers"
     ELSE IF \E k \in 1..Len(content) : linkedin_keyword(content[k])
     THEN "LinkedIn"
     ELSE None

(***************************************************************************)
(* parse_email(content, filename, source): its local variables are the     *)
(* fields of a record; each operator below is one part of its body.        *)
(***************************************************************************)
\* re.split(separator, content): the pieces between separator lines
re_split(content) ==
  LET seps == {k \in 1..Len(content) : separator(content[k])}
      cuts == {0} \cup seps \cup {Len(content) + 1}
      cut(i) == CHOOSE k \in cuts : Cardinality({j \in cuts : j < k}) = i - 1
  IN [i \in 1..(Cardinality(seps) + 1) |->
        SubSeq(content, cut(i) + 1, cut(i + 1) - 1)]

\* sections = [content] if 'glassdoor_email_1.txt' not in filename else re.split(...)
Sections(content, filename) ==
  IF is_combined(filename) THEN re_split(content) ELSE <<content>>

\* [line for line in section.splitlines() if not re.search(noise, line)]
CleanedLines(section) == SelectSeq(section, LAMBDA l : ~noise_phrase(l))

EmptyPosting == [position |-> "", location |-> "", qualifications |-> <<>>]

\* the locals of parse_email before its loop over the sections
ParseStart(content, filename, source) ==
  [ pc |-> "section", content |-> content, filename |-> filename,
    source |-> source, sections |-> Sections(content, filename),
    bound |-> FALSE, cleaned_lines |-> <<>>, n |-> 0,
    all_job_postings |-> <<>>, from_header |-> "Unknown",
    subject_text |-> "Unknown", date_text |-> "Unknown",
    location |-> "Unknown", minimum_qualifications |-> <<"Unknown">>,
    remote |-> FALSE, job_postings |-> <<>>, seen_positions |-> {},
    job_section |-> FALSE, current_posting |-> EmptyPosting,
    remote_job_position |-> "Unknown", english_job_position |-> "Unknown",
    log |-> {}, result |-> None ]

\* a parse_email that is not running
ParseIdle ==
  [ParseStart(<<>>, "", None) EXCEPT !.pc = "idle", !.sections = <<>>]

\* the first of the indices hits, 0 when there is none
FirstLine(hits) == IF hits = {} THEN 0 ELSE Min(hits)

MetaWindow == 50

\* the metadata pass without the limit of 50 lines
Window_Whole(lines) == lines

Window(lines) ==
  SubSeq(lines, 1, IF Len(lines) < MetaWindow THEN Len(lines) ELSE MetaWindow)

\* the two metadata passes over a section's cleaned lines
Metadata(st, cl) ==
  LET w == Window(cl)
      s1 == FirstLine({k \in 1..Len(w) : email_address(w[k])})
      j1 == FirstLine({k \in 1..Len(w) : /\ w[k] # ""
                                          /\ ~subject_excluded(w[k])
                                          /\ subject_keyword(w[k])})
      d1 == FirstLine({k \in 1..Len(w) : date_shape(w[k])})
      from1 == IF st.from_header = "Unknown" /\ s1 > 0
               THEN email_group(w[s1]) ELSE st.from_header
      subj1 == IF st.subject_text = "Unknown" /\ j1 > 0
               THEN w[j1] ELSE st.subject_text
      date1 == IF st.date_text = "Unknown" /\ d1 > 0
               THEN w[d1] ELSE st.date_text
      s2 == FirstLine({k \in 1..Len(cl) : email_address(cl[k])})
      j2 == FirstLine({k \in 1..Len(cl) : subject_keyword_fallback(cl[k])})
      d2 == FirstLine({k \in 1..Len(cl) : date_shape_fallback(cl[k])})
      from2 == IF from1 = "Unknown" /\ s2 > 0
               THEN email_group(cl[s2]) ELSE from1
      subj2 == IF subj1 = "Unknown" /\ j2 > 0 THEN cl[j2] ELSE subj1
      date2 == IF date1 = "Unknown" /\ d2 > 0 THEN cl[d2] ELSE date1
      events ==
        (IF from1 = "Unknown" /\ s2 > 0
         THEN {<<"Fallback sender identified", cl[s2]>>} ELSE {})
        \cup (IF subj1 = "Unknown" /\ j2 > 0
              THEN {<<"Fallback subject identified", cl[j2]>>} ELSE {})
        \cup (IF date1 = "Unknown" /\ d2 > 0
              THEN {<<"Fallback date identified", cl[d2]>>} ELSE {})
        \cup (IF from2 = "Unknown"
              THEN {<<"Sender not identified", st.filename>>} ELSE {})
        \cup (IF subj2 = "Unknown"
              THEN {<<"Subject not identified", st.filename>>} ELSE {})
        \cup (IF date2 = "Unknown"
              THEN {<<"Date not identified", st.filename>>} ELSE {})
  IN [st EXCEPT !.from_header = from2, !.subject_text = subj2,
                !.date_text = date2, !.log = @ \cup events]

\* SectionStart with seen_positions kept from the section before
SectionStart_KeepSeen(st, section) ==
  LET cl == CleanedLines(section)
  IN [Metadata(st, cl) EXCEPT
        !.bound = TRUE, !.cleaned_lines = cl, !.n = 1,
        !.job_postings = <<>>,
        !.job_section = FALSE, !.current_posting = EmptyPosting,
        !.remote_job_position = "Unknown",
        !.english_job_position = "Unknown", !.pc = "primary"]

\* the head of the loop body: the section's cleaned lines, its metadata and
\* the fresh locals of the posting scan
SectionStart(st, section) ==
  LET cl == CleanedLines(section)
  IN [Metadata(st, cl) EXCEPT
        !.bound = TRUE, !.cleaned_lines = cl, !.n = 1,
        !.job_postings = <<>>, !.seen_positions = {},
        !.job_section = FALSE, !.current_posting = EmptyPosting,
        !.remote_job_position = "Unknown",
        !.english_job_position = "Unknown", !.pc = "primary"]

\* the posting appended for a candidate
Closed(posting) ==
  [ position |-> posting.position,
    location |-> IF posting.location = "" THEN "Unknown"
                 ELSE posting.location,
    qualifications |-> IF posting.qualifications = <<>> THEN <<"Unknown">>
                       ELSE posting.qualifications ]

\* Flush without the test of seen_positions
Flush_NoDedup(st) ==
  IF st.current_posting.position # ""
  THEN [st EXCEPT
          !.job_postings = Append(@, Closed(st.current_posting)),
          !.seen_positions = @ \cup {st.current_posting.position}]
  ELSE st

\* if current_posting['position'] and ... not in seen_positions: append, add
Flush(st) ==
  IF st.current_posting.position # ""
     /\ st.current_posting.position \notin st.seen_positions
  THEN [st EXCEPT
          !.job_postings = Append(@, Closed(st.current_posting)),
          !.seen_positions = @ \cup {st.current_posting.position}]
  ELSE st

\* current_posting = {'position': line, ...}; first English title
OpenPosting(st, line) ==
  [st EXCEPT
     !.current_posting = [EmptyPosting EXCEPT !.position = line],
     !.english_job_position = IF @ = "Unknown" THEN line ELSE @]

\* the title a remote-signalling position line records
RemoteTitle(st, line) == line

\* an accepted position line of the primary scan
AcceptPosition(st, line) ==
  LET opened == OpenPosting(Flush(st), line)
  IN IF remote_signal(line)
     THEN [opened EXCEPT
             !.remote_job_position = RemoteTitle(st, line),
             !.remote = TRUE,
             !.log = @ \cup {<<"Remote position prioritized", line>>}]
     ELSE opened

\* LocationLine without the test "if location == 'Unknown'"
LocationLine_Overwrites(st, line) ==
  LET set == [st EXCEPT
                !.current_posting.location = replace_place(line),
                !.location = replace_place(line)]
  IN IF remote_signal(line)
     THEN [set EXCEPT
             !.remote_job_position =
                IF st.current_posting.position # ""
                THEN st.current_posting.position
                ELSE st.english_job_position,
             !.remote = TRUE,
             !.log = @ \cup {<<"Remote location prioritized", line>>}]
     ELSE set

\* a location line of the primary scan
LocationLine(st, line) ==
  LET set == [st EXCEPT
                !.current_posting.location = replace_place(line),
                !.location = IF @ = "Unknown" THEN replace_place(line)
                             ELSE @]
  IN IF remote_signal(line)
     THEN [set EXCEPT
             !.remote_job_position =
                IF st.current_posting.position # ""
                THEN st.current_posting.position
                ELSE st.english_job_position,
             !.remote = TRUE,
             !.log = @ \cup {<<"Remote location prioritized", line>>}]
     ELSE set

\* a qualification line (of either scan)
QualificationLine(st, line) ==
  [st EXCEPT
     !.current_posting.qualifications = Append(@, line),
     !.minimum_qualifications = IF @ = <<"Unknown">> THEN <<line>> ELSE @]

\* PrimaryLine with the English gate applied after the candidate is opened
PrimaryLine_GateAfterOpen(st, line) ==
  IF start_str(line) THEN [st EXCEPT !.job_section = TRUE]
  ELSE IF ~st.job_section THEN st
  ELSE IF position_pattern(line)
  THEN IF is_english(line) THEN AcceptPosition(st, line)
       ELSE [AcceptPosition(st, line) EXCEPT
               !.log = @ \cup {<<"Non-English position skipped", line>>}]
  ELSE IF line = "" THEN st
  ELSE IF location_pattern(line) /\ ~clock_time(line)
  THEN LocationLine(st, line)
  ELSE IF qualifications_pattern(line) /\ ~paid_vacation(line)
  THEN QualificationLine(st, line)
  ELSE st

\* the body of "for line in cleaned_lines" of the primary scan
PrimaryLine(st, line) ==
  IF start_str(line) THEN [st EXCEPT !.job_section = TRUE]
  ELSE IF ~st.job_section THEN st
  ELSE IF position_pattern(line)
  THEN IF is_english(line) THEN AcceptPosition(st, line)
       ELSE [st EXCEPT
               !.log = @ \cup {<<"Non-English position skipped", line>>}]
  ELSE IF line = "" THEN st
  ELSE IF location_pattern(line) /\ ~clock_time(line)
  THEN LocationLine(st, line)
  ELSE IF qualifications_pattern(line) /\ ~paid_vacation(line)
  THEN QualificationLine(st, line)
  ELSE st

\* the body of the loop of the GoogleCareers fallback scan
FallbackLine(st, line) ==
  IF fallback_position_pattern(line)
  THEN IF is_english(line)
       THEN LET opened == OpenPosting(Flush(st), line)
            IN IF remote_signal(line)
               THEN [opened EXCEPT !.remote_job_position = line,
                                   !.remote = TRUE]
               ELSE opened
       ELSE st
  ELSE IF location_pattern(line) /\ ~clock_time(line)
  THEN [st EXCEPT
          !.current_posting.location = line,
          !.location = IF @ = "Unknown" THEN line ELSE @,
          !.remote = IF remote_signal(line) THEN TRUE ELSE @]
  ELSE IF qualifications_pattern(line) /\ ~paid_vacation(line)
  THEN QualificationLine(st, line)
  ELSE st

\* source == 'GoogleCareers' and not job_postings
NeedsFallback(st) == st.source = "GoogleCareers" /\ st.job_postings = <<>>

\* the warning that opens the fallback scan, which starts at the first line
BeginFallback(st) ==
  [st EXCEPT !.pc = "fallback", !.n = 1,
             !.log = @ \cup {<<"No job postings found", st.filename>>}]

\* the end of the loop body: the last flush and the aggregation
SectionEnd(st) ==
  LET f == Flush(st)
  IN [f EXCEPT !.all_job_postings = @ \o f.job_postings, !.pc = "section"]

\* the title parse_email returns
JobPosition(st) ==
  IF st.remote_job_position # "Unknown" THEN st.remote_job_position
  ELSE st.english_job_position

\* the statements after the loop and the returned tuple; job_postings_str is
\* the sequence of the postings it renders, <<>> standing for 'Unknown'
Return(st) ==
  [st EXCEPT
     !.pc = "done",
     !.log = @ \cup (IF st.all_job_postings = <<>>
                     THEN {<<"No job postings identified", st.filename>>}
                     ELSE {<<"Extracted job postings", st.filename>>}),
     !.result = [ from_header |-> st.from_header,
                  subject_text |-> st.subject_text,
                  date_text |-> st.date_text,
                  job_position |-> JobPosition(st),
                  location |-> st.location,
                  minimum_qualifications |-> st.minimum_qualifications,
                  job_postings |-> st.all_job_postings,
                  remote |-> st.remote ]]

\* no section was entered: cleaned_lines is unbound where the statements
\* after the loop read it; the NameError is logged and raised again
Raise(st) ==
  [st EXCEPT
     !.pc = "raised",
     !.log = @ \cup { <<"No job postings identified", st.filename>>,
                      <<"Error parsing", st.filename>> }]

\* parse_email run to its end
RECURSIVE RunPrimary(_)
RunPrimary(st) ==
  IF st.n > Len(st.cleaned_lines) THEN st
  ELSE RunPrimary([PrimaryLine(st, st.cleaned_lines[st.n]) EXCEPT !.n = @ + 1])

RECURSIVE RunFallback(_)
RunFallback(st) ==
  IF st.n > Len(st.cleaned_lines) THEN st
  ELSE RunFallback([FallbackLine(st, st.cleaned_lines[st.n]) EXCEPT !.n = @ + 1])

RunSection(st, section) ==
  LET scanned == RunPrimary(SectionStart(st, section))
  IN SectionEnd(IF NeedsFallback(scanned)
                THEN RunFallback(BeginFallback(scanned)) ELSE scanned)

RECURSIVE RunSections(_)
RunSections(st) ==
  IF st.sections = <<>> THEN (IF st.bound THEN Return(st) ELSE Raise(st))
  ELSE IF Head(st.sections) = <<>>
  THEN RunSections([st EXCEPT !.sections = Tail(@)])
  ELSE RunSections([RunSection(st, Head(st.sections)) EXCEPT
                      !.sections = Tail(@)])

parse_email(content, filename, source) ==
  RunSections(ParseStart(content, filename, source))

(***************************************************************************)
(* The inputs of a call of parse_email.                                    *)
(***************************************************************************)
\* the scenario document of the specification's section 8
GlassdoorScenario ==
  << "Job alerts", "Senior Software Engineer", "Remote",
     "Bachelor's degree required", "Data Analyst", "New York, NY",
     "Master's degree required" >>

\* the documents made of some of the lines of a document, in its order
RECURSIVE SubDocuments(_)
SubDocuments(doc) ==
  IF doc = <<>> THEN { <<>> }
  ELSE LET rest == SubDocuments(Tail(doc))
       IN rest \cup { <<Head(doc)>> \o r : r \in rest }

\* two sections of titles joined by the separator line of a combined file
TwoSections ==
  { a \o <<Separator>> \o b : a, b \in SeqUpTo(TitleLines, MaxSectionLines) }

Contents ==
  SeqUpTo(ParseLines, MaxLines) \cup SeqUpTo(GateLines, MaxLines)
    \cup SubDocuments(GlassdoorScenario) \cup TwoSections

Filenames == {"glassdoor_email_1.txt", "linkedin_email_3.txt"}

ParseSources == {"Glassdoor", "GoogleCareers"}

IdsIdle == [pc |-> "idle", content |-> <<>>, from_header |-> "", result |-> None]

(***************************************************************************)
(* process_email_dumps: the files of the dump directory and the store.     *)
(***************************************************************************)
BatchFilenames ==
  { "glassdoor_email_1.txt", "linkedin_email_3.txt", "google_email_2.txt",
    "notes.md" }

\* filename.endswith('.txt')
endswith_txt(filename) == filename # "notes.md"

BatchContents ==
  { <<"no-reply@glassdoor.com", "Job alerts", "Data Analyst", "Remote">>,
    <<"Copyright 2025 Glassdoor LLC", Separator, "Job alerts", "Data Analyst">>,
    <<"Search on Google", "Job alerts", "Senior Engineer (Remote)">>,
    <<"Job alerts", "Data Analyst">>,
    <<"Hello world">>,
    <<>> }

\* os.listdir(EMAIL_DUMPS_DIR) with each file's text
Directories ==
  UNION { [S -> BatchContents] :
            S \in {T \in SUBSET BatchFilenames : Cardinality(T) <= MaxFiles} }

\* Entry with the title left out when the store already holds entries
Entry_TitleOfEmptyStore(data, filename, content, source, r, processed_at) ==
  [ id |-> Len(data) + 1, filename |-> filename,
    sender |-> r.from_header, subject |-> r.subject_text,
    date |-> r.date_text, source |-> source, content |-> content,
    processed_at |-> processed_at,
    job_position |-> IF data = <<>> THEN r.job_position ELSE "Unknown",
    location |-> r.location,
    minimum_qualifications |-> r.minimum_qualifications,
    job_postings |-> r.job_postings, remote |-> r.remote ]

\* the dict process_email_dumps builds for a parsed document
Entry(data, filename, content, source, r, processed_at) ==
  [ id |-> Len(data) + 1, filename |-> filename,
    sender |-> r.from_header, subject |-> r.subject_text,
    date |-> r.date_text, source |-> source, content |-> content,
    processed_at |-> processed_at, job_position |-> r.job_position,
    location |-> r.location,
    minimum_qualifications |-> r.minimum_qualifications,
    job_postings |-> r.job_postings, remote |-> r.remote ]

\* what init_json() loads: the store an earlier run left
PriorStores ==
  { <<>>,
    << Entry(<<>>, "linkedin_email_3.txt", <<"Share on LinkedIn">>, "LinkedIn",
             parse_email(<<"Share on LinkedIn">>, "linkedin_email_3.txt",
                         "LinkedIn").result, 0) >> }

\* combine_glassdoor_emails is not running
CombineIdle == [pc |-> "idle"]

BatchIdle ==
  [ pc |-> "idle", directory |-> <<>>, pending |-> {}, loaded |-> <<>>,
    json_data |-> <<>>, disk |-> <<>>, disk_valid |-> TRUE,
    success_count |-> 0, fail_count |-> 0, outcome |-> <<>>,
    parsed |-> {}, log |-> {}, now |-> 1, reported |-> FALSE,
    run |-> 1, previous |-> <<>>, output_called |-> FALSE ]

\* the locals of process_email_dumps after init_json()
BatchStart(directory, store) ==
  [BatchIdle EXCEPT !.pc = "list", !.directory = directory,
                    !.pending = DOMAIN directory, !.loaded = store,
                    !.json_data = store, !.disk = store]

(***************************************************************************)
(* parse_email, one step for each iteration of its loops.                  *)
(***************************************************************************)
Init ==
  /\ \E content \in Contents, filename \in Filenames, source \in ParseSources :
       pe = ParseStart(content, filename, source)
  /\ ids = IdsIdle
  /\ batch = BatchIdle
  /\ cmb = CombineIdle

\* "if not section: continue"
SkipEmptySection ==
  /\ pe.pc = "section"
  /\ pe.sections # <<>>
  /\ Head(pe.sections) = <<>>
  /\ pe' = [pe EXCEPT !.sections = Tail(@)]
  /\ UNCHANGED <<ids, batch, cmb>>

EnterSection ==
  /\ pe.pc = "section"
  /\ pe.sections # <<>>
  /\ Head(pe.sections) # <<>>
  /\ pe' = [SectionStart(pe, Head(pe.sections)) EXCEPT !.sections = Tail(@)]
  /\ UNCHANGED <<ids, batch, cmb>>

PrimaryStep ==
  /\ pe.pc = "primary"
  /\ pe.n <= Len(pe.cleaned_lines)
  /\ pe' = [PrimaryLine(pe, pe.cleaned_lines[pe.n]) EXCEPT !.n = @ + 1]
  /\ UNCHANGED <<ids, batch, cmb>>

StartFallback ==
  /\ pe.pc = "primary"
  /\ pe.n > Len(pe.cleaned_lines)
  /\ NeedsFallback(pe)
  /\ pe' = BeginFallback(pe)
  /\ UNCHANGED <<ids, batch, cmb>>

FallbackStep ==
  /\ pe.pc = "fallback"
  /\ pe.n <= Len(pe.cleaned_lines)
  /\ pe' = [FallbackLine(pe, pe.cleaned_lines[pe.n]) EXCEPT !.n = @ + 1]
  /\ UNCHANGED <<ids, batch, cmb>>

EndSection ==
  /\ pe.n > Len(pe.cleaned_lines)
  /\ \/ pe.pc = "primary" /\ ~NeedsFallback(pe)
     \/ pe.pc = "fallback"
  /\ pe' = SectionEnd(pe)
  /\ UNCHANGED <<ids, batch, cmb>>

ParseReturn ==
  /\ pe.pc = "section"
  /\ pe.sections = <<>>
  /\ pe.bound
  /\ pe' = Return(pe)
  /\ UNCHANGED <<ids, batch, cmb>>

ParseRaise ==
  /\ pe.pc = "section"
  /\ pe.sections = <<>>
  /\ ~pe.bound
  /\ pe' = Raise(pe)
  /\ UNCHANGED <<ids, batch, cmb>>

Next ==
  \/ SkipEmptySection
  \/ EnterSection
  \/ PrimaryStep
  \/ StartFallback
  \/ FallbackStep
  \/ EndSection
  \/ ParseReturn
  \/ ParseRaise

Spec == Init /\ [][Next]_vars

(***************************************************************************)
(* Properties of parse_email.                                              *)
(***************************************************************************)
\* the non-empty sections of the running call's document
NonEmptySections == SelectSeq(Sections(pe.content, pe.filename), LAMBDA s : s # <<>>)

\* line k of cleaned lines cl lies in the listing region: after the first
\* start marker, and not itself a start marker
InListing(cl, k) == ~start_str(cl[k]) /\ \E j \in 1..(k - 1) : start_str(cl[j])

\* the scan of one section on its own
SectionScan(section) ==
  RunSection(ParseStart(section, "linkedin_email_3.txt", pe.source), section)

\* C1: within one section, once a remote-preferred title has been recorded, no
\* later position line or location line of that section changes it.
C1_RemoteTitleWriteOnce ==
  [][ (pe.pc \in {"primary", "fallback"} /\ pe.remote_job_position # "Unknown")
        => pe'.remote_job_position = pe.remote_job_position ]_vars

\* C2: the reported jobPosition is the remote-preferred title of the earliest
\* section that recorded one, else the English-preferred title of the earliest
\* section that has one, else 'Unknown'.
C2_JobPositionOfEarliestSection ==
  pe.pc = "done" =>
    LET scans == [k \in 1..Len(NonEmptySections) |->
                    SectionScan(NonEmptySections[k])]
        r == FirstLine({k \in 1..Len(scans) :
                          scans[k].remote_job_position # "Unknown"})
        e == FirstLine({k \in 1..Len(scans) :
                          scans[k].english_job_position # "Unknown"})
    IN pe.result.job_position =
         IF r > 0 THEN scans[r].remote_job_position
         ELSE IF e > 0 THEN scans[e].english_job_position
         ELSE "Unknown"

\* a line of the listing region that the primary scan takes as a remote signal:
\* an accepted position line, or a location line
PrimaryRemoteLine(cl, k) ==
  /\ InListing(cl, k)
  /\ remote_signal(cl[k])
  /\ IF position_pattern(cl[k]) THEN is_english(cl[k])
     ELSE location_pattern(cl[k]) /\ ~clock_time(cl[k])

\* C3: remote is true exactly when some accepted position line or some location
\* line inside a listing region of a section signals remote work.
C3_RemoteFlag ==
  pe.pc = "done" =>
    (pe.result.remote <=>
       \E s \in 1..Len(NonEmptySections) :
         LET cl == CleanedLines(NonEmptySections[s])
         IN \E k \in 1..Len(cl) : PrimaryRemoteLine(cl, k))

\* C4: the postings flushed for a section never contain two postings with the
\* same title.
C4_NoDuplicateTitle ==
  \A i, j \in 1..Len(pe.job_postings) :
    pe.job_postings[i].position = pe.job_postings[j].position => i = j

\* a section is over in which a title came again after it was flushed, and the
\* second candidate was not flushed
C4_Witness ==
  /\ pe.pc = "section"
  /\ Len(pe.job_postings) = 2
  /\ pe.current_posting.position = pe.job_postings[1].position

\* C5: a line that matches the position pattern and fails the English gate is
\* no title, location or qualification of a posting, nor the document's
\* jobPosition or location, for every provider.
C5_RejectedTitleNeverInOutput ==
  pe.pc = "done" =>
    \A k \in 1..Len(pe.content) :
      LET l == pe.content[k]
      IN position_pattern(l) /\ ~is_english(l) =>
           /\ pe.result.job_position # l
           /\ pe.result.location # l
           /\ \A i \in 1..Len(pe.result.job_postings) :
                LET p == pe.result.job_postings[i]
                IN /\ p.position # l
                   /\ p.location # l
                   /\ \A q \in 1..Len(p.qualifications) :
                        p.qualifications[q] # l

\* C6: the Glassdoor scenario yields two postings, each with its location and
\* its qualification line, jobPosition 'Senior Software Engineer' and remote.
C6_GlassdoorScenario ==
  (pe.pc = "done" /\ pe.content = GlassdoorScenario /\ pe.source = "Glassdoor") =>
    /\ pe.result.job_postings =
         << [ position |-> "Senior Software Engineer", location |-> "Remote",
              qualifications |-> <<"Bachelor's degree required">> ],
            [ position |-> "Data Analyst", location |-> "New York, NY",
              qualifications |-> <<"Master's degree required">> ] >>
    /\ pe.result.job_position = "Senior Software Engineer"
    /\ pe.result.remote

\* C7: the line 'Ingénieur Logiciel' inside a listing region changes no
\* candidate and no document-level field, and a non-English-skip diagnostic is
\* emitted for it.
C7_NonEnglishTitleSkipped ==
  [][ ( /\ pe.pc = "primary"
        /\ pe.n <= Len(pe.cleaned_lines)
        /\ pe.job_section
        /\ pe.cleaned_lines[pe.n] = "Ingénieur Logiciel" )
        => pe' = [pe EXCEPT
                    !.n = @ + 1,
                    !.log = @ \cup {<<"Non-English position skipped",
                                      "Ingénieur Logiciel">>}] ]_vars

\* the postings of the sections, each scanned on its own, one after the other
RECURSIVE PostingsOf(_)
PostingsOf(sections) ==
  IF sections = <<>> THEN <<>>
  ELSE SectionScan(Head(sections)).job_postings \o PostingsOf(Tail(sections))

\* C9: the postings of a combined document are the postings of its sections,
\* in order, with no deduplication across sections.
C9_SectionsConcatenated ==
  (pe.pc = "done" /\ is_combined(pe.filename)) =>
    pe.result.job_postings = PostingsOf(NonEmptySections)

\* a combined document of two sections is done, and both flushed the same title
C9_Witness ==
  /\ pe.pc = "done"
  /\ is_combined(pe.filename)
  /\ pe.source = "Glassdoor"
  /\ Len(NonEmptySections) = 2
  /\ Len(pe.result.job_postings) = 2
  /\ pe.result.job_postings[1].position = pe.result.job_postings[2].position

(***************************************************************************)
(* identify_source called on a document and a sender header.               *)
(***************************************************************************)
InitClassify ==
  /\ \E content \in SeqUpTo(ClassifyLines, MaxClassifyLines),
        from_header \in Headers :
       ids = [pc |-> "call", content |-> content,
              from_header |-> from_header, result |-> None]
  /\ pe = ParseIdle
  /\ batch = BatchIdle
  /\ cmb = CombineIdle

Identify ==
  /\ ids.pc = "call"
  /\ ids' = [ids EXCEPT !.pc = "done",
                        !.result = identify_source(ids.content, ids.from_header)]
  /\ UNCHANGED <<pe, batch, cmb>>

NextClassify == Identify

SpecClassify == InitClassify /\ [][NextClassify]_vars

\* the providers a stage of identify_source finds
HeaderHits ==
  {s \in Providers :
     ids.from_header # "" /\ SENDER_PATTERNS(s, ids.from_header)}

BodySenderHits ==
  {s \in Providers :
     \E k \in 1..Len(ids.content) : SENDER_PATTERNS(s, ids.content[k])}

FooterHits ==
  {s \in Providers :
     \E k \in 1..Len(ids.content) : SOURCES(s, ids.content[k])}

InitBatch ==
  /\ \E directory \in Directories, store \in PriorStores :
       batch = BatchStart(directory, store)
  /\ pe = ParseIdle
  /\ ids = IdsIdle
  /\ cmb = CombineIdle

\* Failed with the exception leaving the loop
Failed_AbortsBatch(b, f, message) ==
  [b EXCEPT !.pc = "done", !.pending = @ \ {f}, !.fail_count = @ + 1,
            !.log = @ \cup {<<message, f>>, <<"Processing error", "">>},
            !.outcome = [g \in DOMAIN @ \cup {f} |->
                           IF g = f THEN "failure" ELSE @[g]]]

\* a file counted as failed, with the message logged for it
Failed(b, f, message) ==
  [b EXCEPT !.pending = @ \ {f}, !.fail_count = @ + 1,
            !.log = @ \cup {<<message, f>>},
            !.outcome = [g \in DOMAIN @ \cup {f} |->
                           IF g = f THEN "failure" ELSE @[g]]]

\* a file counted as successful
Succeeded(b, f) ==
  [b EXCEPT !.pending = @ \ {f}, !.success_count = @ + 1,
            !.log = @ \cup {<<"Saved entry", f>>},
            !.outcome = [g \in DOMAIN @ \cup {f} |->
                           IF g = f THEN "success" ELSE @[g]]]

\* ClassificationFails with the test left out
ClassificationFails_Never(source) == FALSE

\* "if source is None"
ClassificationFails(source) == source = None

\* the parse of file f and the entry built from it, appended by save_to_json
Appended(b, f) ==
  LET content == b.directory[f]
      source == identify_source(content, "")
      r == parse_email(content, f, source).result
  IN [b EXCEPT
        !.json_data = Append(@, Entry(@, f, content, source, r, b.now)),
        !.parsed = @ \cup {f}, !.now = @ + 1]

\* os.listdir(EMAIL_DUMPS_DIR) returns the names of the directory
ListDir ==
  /\ batch.pc = "list"
  /\ batch' = [batch EXCEPT !.pc = "loop"]
  /\ UNCHANGED <<pe, ids, cmb>>

\* os.listdir(EMAIL_DUMPS_DIR) raises: the outer handler logs the error
ListFails ==
  /\ batch.pc = "list"
  /\ batch' = [batch EXCEPT !.pc = "done",
                            !.log = @ \cup {<<"Processing error", "">>}]
  /\ UNCHANGED <<pe, ids, cmb>>

\* "if filename.endswith('.txt')" is false
SkipFile(f) ==
  /\ batch.pc = "loop"
  /\ f \in batch.pending
  /\ ~endswith_txt(f)
  /\ batch' = [batch EXCEPT !.pending = @ \ {f}]
  /\ UNCHANGED <<pe, ids, cmb>>

\* open() or read() raises
ReadFails(f) ==
  /\ batch.pc = "loop"
  /\ f \in batch.pending
  /\ endswith_txt(f)
  /\ batch' = Failed(batch, f, "Error processing")
  /\ UNCHANGED <<pe, ids, cmb>>

Unclassified(f) ==
  /\ batch.pc = "loop"
  /\ f \in batch.pending
  /\ endswith_txt(f)
  /\ ClassificationFails(identify_source(batch.directory[f], ""))
  /\ batch' = Failed(batch, f, "Unknown source")
  /\ UNCHANGED <<pe, ids, cmb>>

\* the document is parsed and its entry saved
Saved(f) ==
  /\ batch.pc = "loop"
  /\ f \in batch.pending
  /\ endswith_txt(f)
  /\ ~ClassificationFails(identify_source(batch.directory[f], ""))
  /\ batch' =
       IF parse_email(batch.directory[f], f,
                      identify_source(batch.directory[f], "")).pc = "raised"
       THEN Failed([batch EXCEPT !.parsed = @ \cup {f}], f, "Error processing")
       ELSE LET a == Appended(batch, f)
            IN Succeeded([a EXCEPT !.disk = a.json_data, !.disk_valid = TRUE], f)
  /\ UNCHANGED <<pe, ids, cmb>>

\* the document is parsed and its entry appended, and writing the store
\* raises: in open(), or in json.dump() after open() has truncated the file
SaveFails(f) ==
  /\ batch.pc = "loop"
  /\ f \in batch.pending
  /\ endswith_txt(f)
  /\ ~ClassificationFails(identify_source(batch.directory[f], ""))
  /\ parse_email(batch.directory[f], f,
                 identify_source(batch.directory[f], "")).pc = "done"
  /\ \E truncated \in BOOLEAN :
       batch' = Failed([Appended(batch, f) EXCEPT
                          !.log = @ \cup {<<"Error saving to JSON", f>>},
                          !.disk = IF truncated THEN <<>> ELSE @,
                          !.disk_valid = IF truncated THEN FALSE ELSE @],
                       f, "Error processing")
  /\ UNCHANGED <<pe, ids, cmb>>

\* the loop is over: the counts are printed and generate_output(json_data)
\* returns, or raises and the error is logged
Finish ==
  /\ batch.pc = "loop"
  /\ batch.pending = {}
  /\ \E ok \in BOOLEAN :
       batch' = [batch EXCEPT
                   !.pc = "done", !.reported = ok, !.output_called = TRUE,
                   !.log = IF ok THEN @ ELSE @ \cup {<<"Processing error", "">>}]
  /\ UNCHANGED <<pe, ids, cmb>>

NextBatch ==
  \/ ListDir
  \/ ListFails
  \/ \E f \in BatchFilenames : SkipFile(f)
  \/ \E f \in BatchFilenames : ReadFails(f)
  \/ \E f \in BatchFilenames : Unclassified(f)
  \/ \E f \in BatchFilenames : Saved(f)
  \/ \E f \in BatchFilenames : SaveFails(f)
  \/ Finish

SpecBatch == InitBatch /\ [][NextBatch]_vars

\* no sender pattern, no footer pattern and no loose keyword matches the text
Unclassifiable(content) ==
  \A k \in 1..Len(content) :
    /\ \A s \in Providers :
         ~SENDER_PATTERNS(s, content[k]) /\ ~SOURCES(s, content[k])
    /\ ~google_keyword(content[k])
    /\ ~linkedin_keyword(content[k])

\* the entries of this run for file f
Produced(f) ==
  { k \in (Len(batch.loaded) + 1)..Len(batch.json_data) :
      batch.json_data[k].filename = f }

\* C8: the records of a run hold exactly one entry for each document that was
\* classified and parsed, and none for a document that matches no sender
\* pattern, footer pattern or keyword; such a document is counted as a failure
\* and parse_email is not called on it.
C8_OneEntryPerClassifiedDocument ==
  \A f \in DOMAIN batch.outcome :
    /\ Unclassifiable(batch.directory[f]) =>
         /\ Produced(f) = {}
         /\ batch.outcome[f] = "failure"
         /\ f \notin batch.parsed
    /\ f \in batch.parsed => Cardinality(Produced(f)) = 1

\* a run is over in which one document was unclassifiable and another was
\* parsed and saved
C8_Witness ==
  /\ batch.pc = "done"
  /\ \E f, g \in DOMAIN batch.outcome :
       /\ Unclassifiable(batch.directory[f])
       /\ batch.outcome[f] = "failure"
       /\ g \in batch.parsed
       /\ batch.outcome[g] = "success"

(***************************************************************************)
(* identify_source called several times by one process.                    *)
(***************************************************************************)
\* a content that is no string: re.search raises on it
NotText == <<"<not text>">>

CallContents ==
  { <<>>, <<"jobs-noreply@linkedin.com">>,
    <<"jobs-noreply@linkedin.com", "Copyright 2025 Glassdoor LLC">>,
    <<"Search on Google">>, <<"Hello world">>, NotText }

CallHeaders == {"", "careers-noreply@google.com", "someone@example.com"}

CallStart(content, from_header, history, log) ==
  [ pc |-> "call", content |-> content, from_header |-> from_header,
    result |-> None, history |-> history, log |-> log ]

\* IdentifyCall answering with the provider of the call before, when there is one
IdentifyCall_Cached(st) ==
  [st EXCEPT
     !.pc = "done",
     !.result = IF st.history # <<>> THEN st.history[Len(st.history)].result
                ELSE identify_source(st.content, st.from_header)]

\* one call: the stages of identify_source inside its try block, and the
\* handler that logs the error and returns None
IdentifyCall(st) ==
  LET by_header == identify_source(<<>>, st.from_header)
      result == IF st.content # NotText
                THEN identify_source(st.content, st.from_header)
                ELSE by_header
  IN [st EXCEPT
        !.pc = "done",
        !.result = result,
        !.log = IF result # None THEN @
                ELSE IF st.content = NotText
                THEN @ \cup {"Error in source identification"}
                ELSE @ \cup {"No source identified"}]

InitCalls ==
  /\ \E content \in CallContents, from_header \in CallHeaders :
       ids = CallStart(content, from_header, <<>>, {})
  /\ pe = ParseIdle
  /\ batch = BatchIdle
  /\ cmb = CombineIdle

IdentifyReturns ==
  /\ ids.pc = "call"
  /\ ids' = IdentifyCall(ids)
  /\ UNCHANGED <<pe, batch, cmb>>

\* the caller calls identify_source again
CallAgain ==
  /\ ids.pc = "done"
  /\ Len(ids.history) + 1 < MaxCalls
  /\ \E content \in CallContents, from_header \in CallHeaders :
       ids' = CallStart(content, from_header,
                        Append(ids.history,
                               [ content |-> ids.content,
                                 from_header |-> ids.from_header,
                                 result |-> ids.result ]),
                        ids.log)
  /\ UNCHANGED <<pe, batch, cmb>>

NextCalls == IdentifyReturns \/ CallAgain

SpecCalls == InitCalls /\ [][NextCalls]_vars

\* the calls that have returned
Returned ==
  {ids.history[k] : k \in 1..Len(ids.history)}
    \cup (IF ids.pc = "done"
          THEN {[ content |-> ids.content, from_header |-> ids.from_header,
                  result |-> ids.result ]}
          ELSE {})

EntriesOfRun(b) == SubSeq(b.json_data, Len(b.loaded) + 1, Len(b.json_data))

\* the next run: init_json() loads the store from disk
RunAgain ==
  /\ batch.pc = "done"
  /\ batch.run < MaxRuns
  /\ batch.disk_valid
  /\ batch' = [BatchStart(batch.directory, batch.disk) EXCEPT
                 !.run = batch.run + 1, !.now = batch.now,
                 !.previous = EntriesOfRun(batch)]
  /\ UNCHANGED <<pe, ids, cmb>>

\* the next run finds a store that is no JSON: init_json() logs the error and
\* raises, and process_email_dumps ends with it
RunAgainFails ==
  /\ batch.pc = "done"
  /\ batch.run < MaxRuns
  /\ ~batch.disk_valid
  /\ batch' = [batch EXCEPT !.pc = "aborted", !.run = @ + 1,
                            !.log = {<<"JSON initialization error", "">>}]
  /\ UNCHANGED <<pe, ids, cmb>>

NextRuns == NextBatch \/ RunAgain \/ RunAgainFails

SpecRuns == InitBatch /\ [][NextRuns]_vars

\* entries a and b are equal in every field but those of the set except
SameBut(a, b, except) ==
  \A field \in DOMAIN a \ except : a[field] = b[field]

SpecBatchLive == SpecBatch /\ WF_vars(NextBatch)

\* the .txt files of the directory
TxtFiles == {f \in DOMAIN batch.directory : endswith_txt(f)}

\* the files with the given outcome
Counted(outcome) == {f \in DOMAIN batch.outcome : batch.outcome[f] = outcome}

\* C13: a failure on one document never ends the loop: every .txt document
\* handled so far is counted once, as success or as failure, the loop is left
\* only when no document remains, and then generate_output is called.
C13_BatchIsolation ==
  /\ [](batch.pc = "loop" =>
          /\ DOMAIN batch.outcome = TxtFiles \ batch.pending
          /\ batch.success_count = Cardinality(Counted("success"))
          /\ batch.fail_count = Cardinality(Counted("failure")))
  /\ [][batch.pc = "loop" /\ batch'.pc # "loop" =>
          /\ batch.pending = {}
          /\ batch'.output_called]_vars
  /\ (batch.pc = "loop") ~>
       /\ batch.pc = "done"
       /\ batch.output_called
       /\ batch.success_count + batch.fail_count = Cardinality(TxtFiles)

\* a run is over in which the save of the first document raised and the second
\* document was saved: the store on disk has both entries
C13_Witness ==
  /\ batch.pc = "done"
  /\ batch.output_called
  /\ batch.fail_count = 1
  /\ batch.success_count = 1
  /\ <<"Error saving to JSON", "glassdoor_email_1.txt">> \in batch.log
  /\ Len(batch.disk) = Len(batch.loaded) + 2

(***************************************************************************)
(* combine_glassdoor_emails.  A text is the sequence of its lines; the     *)
(* empty file is <<>>.                                                     *)
(***************************************************************************)
CombineFilenames ==
  { "glassdoor_email_1.txt", "glassdoor_email_2.txt", "glassdoor_email_3.txt",
    "glassdoor_email_old.txt", "linkedin_email_3.txt" }

\* f.startswith('glassdoor_email_') and f.endswith('.txt')
is_glassdoor_file(f) ==
  f \in { "glassdoor_email_1.txt", "glassdoor_email_2.txt",
          "glassdoor_email_3.txt", "glassdoor_email_old.txt" }

output_file == "glassdoor_email_1.txt"

\* f"--- {file} ---"
SeparatorOf(file) ==
  CASE file = "glassdoor_email_1.txt" -> "--- glassdoor_email_1.txt ---"
    [] file = "glassdoor_email_2.txt" -> "--- glassdoor_email_2.txt ---"
    [] file = "glassdoor_email_3.txt" -> "--- glassdoor_email_3.txt ---"
    [] file = "glassdoor_email_old.txt" -> "--- glassdoor_email_old.txt ---"

CombineContents == {<<>>, <<"Job alerts", "Data Analyst">>, <<"Remote">>}

\* the dump directory: up to MaxDumps files with their texts
CombineDirectories ==
  UNION { [S -> CombineContents] :
            S \in {T \in SUBSET CombineFilenames : Cardinality(T) <= MaxDumps} }

\* the orders os.listdir may give the names of S in
Orders(S) ==
  { q \in [1..Cardinality(S) -> S] :
      \A i, j \in 1..Cardinality(S) : q[i] = q[j] => i = j }

\* the lines of a text, as split at line breaks
TextLines(content) == IF content = <<>> THEN <<"">> ELSE content

\* f"--- {file} ---\n{content}\n"
Chunk(file, content) == <<SeparatorOf(file)>> \o TextLines(content) \o <<"">>

\* "\n".join(combined_content)
RECURSIVE Joined(_)
Joined(chunks) ==
  IF chunks = <<>> THEN <<>> ELSE Head(chunks) \o Joined(Tail(chunks))

\* disk without file f
Removed(disk, f) == [g \in DOMAIN disk \ {f} |-> disk[g]]

\* disk with text written to file f
Written(disk, f, text) ==
  [g \in DOMAIN disk \cup {f} |-> IF g = f THEN text ELSE disk[g]]

CombineStart(directory) ==
  [ pc |-> "list", disk |-> directory, original |-> directory,
    glassdoor_files |-> <<>>, i |-> 1, combined_content |-> <<>>, log |-> {} ]

\* the handler of combine_glassdoor_emails: the error is logged
CombineError(c) ==
  [c EXCEPT !.pc = "done",
            !.log = @ \cup {"Error combining Glassdoor emails"}]

InitCombine ==
  /\ \E directory \in CombineDirectories : cmb = CombineStart(directory)
  /\ pe = ParseIdle
  /\ ids = IdsIdle
  /\ batch = BatchIdle

\* glassdoor_files, and the return when there is none
CombineList ==
  /\ cmb.pc = "list"
  /\ \E order \in Orders({f \in DOMAIN cmb.disk : is_glassdoor_file(f)}) :
       cmb' = IF order = <<>>
              THEN [cmb EXCEPT
                      !.pc = "done",
                      !.log = @ \cup {"No Glassdoor email dump files found."}]
              ELSE [cmb EXCEPT !.pc = "read", !.glassdoor_files = order]
  /\ UNCHANGED <<pe, ids, batch>>

\* os.listdir raises
CombineListFails ==
  /\ cmb.pc = "list"
  /\ cmb' = CombineError(cmb)
  /\ UNCHANGED <<pe, ids, batch>>

\* one iteration of the reading loop
CombineRead ==
  /\ cmb.pc = "read"
  /\ cmb.i <= Len(cmb.glassdoor_files)
  /\ LET file == cmb.glassdoor_files[cmb.i]
     IN cmb' = [cmb EXCEPT
                  !.combined_content = Append(@, Chunk(file, cmb.disk[file])),
                  !.i = @ + 1]
  /\ UNCHANGED <<pe, ids, batch>>

\* open() or read() of a dump raises
CombineReadFails ==
  /\ cmb.pc = "read"
  /\ cmb.i <= Len(cmb.glassdoor_files)
  /\ cmb' = CombineError(cmb)
  /\ UNCHANGED <<pe, ids, batch>>

\* open(output_file, 'w'): the file is created or truncated
CombineOpen ==
  /\ cmb.pc = "read"
  /\ cmb.i > Len(cmb.glassdoor_files)
  /\ cmb' = [cmb EXCEPT !.pc = "write",
                        !.disk = Written(@, output_file, <<>>)]
  /\ UNCHANGED <<pe, ids, batch>>

\* open(output_file, 'w') raises
CombineOpenFails ==
  /\ cmb.pc = "read"
  /\ cmb.i > Len(cmb.glassdoor_files)
  /\ cmb' = CombineError(cmb)
  /\ UNCHANGED <<pe, ids, batch>>

\* f.write("\n".join(combined_content)) and the file is closed
CombineWrite ==
  /\ cmb.pc = "write"
  /\ cmb' = [cmb EXCEPT
               !.pc = "delete", !.i = 1,
               !.disk = Written(@, output_file, Joined(cmb.combined_content))]
  /\ UNCHANGED <<pe, ids, batch>>

\* the write raises: some lines of the text, or none, have reached the file
CombineWriteFails ==
  /\ cmb.pc = "write"
  /\ \E n \in 0..(Len(Joined(cmb.combined_content)) - 1) :
       cmb' = CombineError(
                [cmb EXCEPT
                   !.disk = Written(@, output_file,
                                    SubSeq(Joined(cmb.combined_content), 1, n))])
  /\ UNCHANGED <<pe, ids, batch>>

\* one iteration of the deleting loop
CombineDelete ==
  /\ cmb.pc = "delete"
  /\ cmb.i <= Len(cmb.glassdoor_files)
  /\ LET file == cmb.glassdoor_files[cmb.i]
     IN cmb' = [cmb EXCEPT
                  !.i = @ + 1,
                  !.disk = IF file # output_file THEN Removed(@, file) ELSE @,
                  !.log = IF file # output_file THEN @ \cup {"Deleted"} ELSE @]
  /\ UNCHANGED <<pe, ids, batch>>

\* os.remove raises
CombineDeleteFails ==
  /\ cmb.pc = "delete"
  /\ cmb.i <= Len(cmb.glassdoor_files)
  /\ cmb.glassdoor_files[cmb.i] # output_file
  /\ cmb' = CombineError(cmb)
  /\ UNCHANGED <<pe, ids, batch>>

CombineReturn ==
  /\ cmb.pc = "delete"
  /\ cmb.i > Len(cmb.glassdoor_files)
  /\ cmb' = [cmb EXCEPT !.pc = "done"]
  /\ UNCHANGED <<pe, ids, batch>>

NextCombine ==
  \/ CombineList
  \/ CombineListFails
  \/ CombineRead
  \/ CombineReadFails
  \/ CombineOpen
  \/ CombineOpenFails
  \/ CombineWrite
  \/ CombineWriteFails
  \/ CombineDelete
  \/ CombineDeleteFails
  \/ CombineReturn

SpecCombine == InitCombine /\ [][NextCombine]_vars

\* the lines part occur in text, one after the other
Contains(text, part) ==
  \E k \in 0..(Len(text) - Len(part)) :
    \A j \in 1..Len(part) : text[k + j] = part[j]

\* the text of original dump f is on disk: in its own file, or in the combined
\* file after its separator (an empty dump has no text to keep)
Preserved(f) ==
  \/ cmb.original[f] = <<>>
  \/ f \in DOMAIN cmb.disk /\ cmb.disk[f] = cmb.original[f]
  \/ /\ output_file \in DOMAIN cmb.disk
     /\ Contains(cmb.disk[output_file],
                 <<SeparatorOf(f)>> \o TextLines(cmb.original[f]))

\* C14: when combine_glassdoor_emails has returned, normally or after a
\* failure, the text of every original Glassdoor dump is on disk, in its own
\* file or in the combined glassdoor_email_1.txt after its separator.
C14_ContentPreserved ==
  cmb.pc = "done" =>
    \A f \in DOMAIN cmb.original : is_glassdoor_file(f) => Preserved(f)

(***************************************************************************)
(* The store on disk after a run of process_email_dumps.                   *)
(***************************************************************************)
\* the places of the store on disk, after the loaded ones, that hold an entry
\* of file f
StoredFor(f) ==
  { k \in (Len(batch.loaded) + 1)..Len(batch.disk) :
      batch.disk[k].filename = f }

\* C15: after a run whose last write left a readable store, the store holds
\* the entries it held before, unchanged and in order, then exactly one entry
\* for each document counted as successful and none for a document counted as
\* failed.
C15_StoreAppendOnly ==
  (batch.pc = "done" /\ batch.output_called /\ batch.disk_valid) =>
    /\ Len(batch.disk) >= Len(batch.loaded)
    /\ SubSeq(batch.disk, 1, Len(batch.loaded)) = batch.loaded
    /\ \A f \in DOMAIN batch.outcome :
         Cardinality(StoredFor(f)) =
           IF batch.outcome[f] = "success" THEN 1 ELSE 0
    /\ Len(batch.disk) = Len(batch.loaded) + batch.success_count

(***************************************************************************)
(* Properties of the two scans of a section in parse_email.                *)
(***************************************************************************)
\* the scan of the running section is at a line
AtLine == pe.pc \in {"primary", "fallback"} /\ pe.n <= Len(pe.cleaned_lines)

\* the primary scan of the running section has read its last line
PrimaryOver == pe.pc = "primary" /\ pe.n > Len(pe.cleaned_lines)

\* C16: the fallback scan follows the primary scan of a section exactly when
\* the provider is GoogleCareers and the primary scan found no posting: it
\* flushed none and left no candidate open.
C16_FallbackOnlyWithoutPosting ==
  [][ PrimaryOver =>
        (pe'.pc = "fallback" <=>
           /\ pe.source = "GoogleCareers"
           /\ pe.job_postings = <<>>
           /\ pe.current_posting.position = "") ]_vars

\* C17: a location line of the fallback scan that signals remote work sets
\* remote and records the title of the open candidate as the remote-preferred
\* title.
C17_FallbackRemoteLocation ==
  [][ ( /\ pe.pc = "fallback"
        /\ pe.n <= Len(pe.cleaned_lines)
        /\ ~fallback_position_pattern(pe.cleaned_lines[pe.n])
        /\ location_pattern(pe.cleaned_lines[pe.n])
        /\ ~clock_time(pe.cleaned_lines[pe.n])
        /\ remote_signal(pe.cleaned_lines[pe.n])
        /\ pe.current_posting.position # "" )
        => /\ pe'.remote
           /\ pe'.remote_job_position = pe.current_posting.position ]_vars

\* line k of cleaned lines cl comes before the first start marker of cl, or cl
\* has no start marker
BeforeListing(cl, k) == \A j \in 1..k : ~start_str(cl[j])

\* C18: a line before the first start marker of its section, or of a section
\* without start marker, opens and flushes no posting, sets no location or
\* qualification of a posting, and sets no document-level location,
\* qualifications or remote flag, for every provider.
C18_OnlyListingRegion ==
  [][ (AtLine /\ BeforeListing(pe.cleaned_lines, pe.n))
        => /\ pe'.job_postings = pe.job_postings
           /\ pe'.current_posting = pe.current_posting
           /\ pe'.location = pe.location
           /\ pe'.minimum_qualifications = pe.minimum_qualifications
           /\ pe'.remote = pe.remote ]_vars

\* C19: a section starts outside the listing, with no candidate and no seen
\* title; the first start marker puts the scan inside the listing, where it
\* stays; and a start marker line changes nothing else, in either scan.
C19_ListingStateMachine ==
  /\ [][ (pe.pc = "section" /\ pe'.pc = "primary")
           => /\ ~pe'.job_section
              /\ pe'.current_posting = EmptyPosting
              /\ pe'.seen_positions = {}
              /\ pe'.job_postings = <<>> ]_vars
  /\ [][ (pe.pc = "primary" /\ pe.n <= Len(pe.cleaned_lines))
           => (pe'.job_section <=>
                 pe.job_section \/ start_str(pe.cleaned_lines[pe.n])) ]_vars
  /\ [][ (AtLine /\ start_str(pe.cleaned_lines[pe.n]))
           => pe' = [pe EXCEPT !.n = @ + 1,
                               !.job_section = @ \/ pe.pc = "primary"] ]_vars


(***************************************************************************)
(* The flush protocol of a section of parse_email, stated from the lines   *)
(* of the section alone.                                                   *)
(***************************************************************************)
\* line k is a position line the scan accepts (lines 465-468 of the primary
\* scan, 510-511 of the fallback scan)
AcceptedLine(scan, cl, k) ==
  IF scan = "primary"
  THEN InListing(cl, k) /\ position_pattern(cl[k]) /\ is_english(cl[k])
  ELSE fallback_position_pattern(cl[k]) /\ is_english(cl[k])

\* line k is a line the scan takes as a location (lines 487-488, 526)
LocationRole(scan, cl, k) ==
  /\ location_pattern(cl[k]) /\ ~clock_time(cl[k])
  /\ IF scan = "primary"
     THEN InListing(cl, k) /\ ~position_pattern(cl[k]) /\ cl[k] # ""
     ELSE ~fallback_position_pattern(cl[k])

\* line k is a line the scan takes as a qualification (lines 497, 533)
QualificationRole(scan, cl, k) ==
  /\ qualifications_pattern(cl[k]) /\ ~paid_vacation(cl[k])
  /\ ~(location_pattern(cl[k]) /\ ~clock_time(cl[k]))
  /\ IF scan = "primary"
     THEN InListing(cl, k) /\ ~position_pattern(cl[k]) /\ cl[k] # ""
     ELSE ~fallback_position_pattern(cl[k])

\* the first accepted position line after line k, or the end of the section
NextAccepted(scan, cl, k) ==
  Min({j \in (k + 1)..Len(cl) : AcceptedLine(scan, cl, j)} \cup {Len(cl) + 1})

\* the location a candidate opened at line k has when it is closed
LocationOf(scan, cl, k) ==
  LET hits == {j \in (k + 1)..(NextAccepted(scan, cl, k) - 1) :
                 LocationRole(scan, cl, j)}
      last == CHOOSE j \in hits : \A i \in hits : i <= j
  IN IF hits = {} THEN ""
     ELSE IF scan = "primary" THEN replace_place(cl[last]) ELSE cl[last]

\* the qualification lines among the lines lo..hi, in order
RECURSIVE QualificationsIn(_, _, _, _)
QualificationsIn(scan, cl, lo, hi) ==
  IF lo > hi THEN <<>>
  ELSE (IF QualificationRole(scan, cl, lo) THEN <<cl[lo]>> ELSE <<>>)
       \o QualificationsIn(scan, cl, lo + 1, hi)

\* the posting of the candidate opened at line k
PostingAt(scan, cl, k) ==
  Closed([position |-> cl[k],
          location |-> LocationOf(scan, cl, k),
          qualifications |->
            QualificationsIn(scan, cl, k + 1,
                             NextAccepted(scan, cl, k) - 1)])

\* line k is the first accepted line with its title
FirstOccurrence(scan, cl, k) ==
  /\ AcceptedLine(scan, cl, k)
  /\ \A j \in 1..(k - 1) : AcceptedLine(scan, cl, j) => cl[j] # cl[k]

\* the postings of the distinct accepted titles from line k on, in order of
\* first occurrence
RECURSIVE PostingsFrom(_, _, _)
PostingsFrom(scan, cl, k) ==
  IF k > Len(cl) THEN <<>>
  ELSE (IF FirstOccurrence(scan, cl, k) THEN <<PostingAt(scan, cl, k)>>
        ELSE <<>>)
       \o PostingsFrom(scan, cl, k + 1)

\* C20: an open candidate whose title is not yet flushed is flushed exactly
\* when the next accepted position line arrives or at the end of the section;
\* the posting list of a section then holds every distinct accepted title
\* once, in order of first occurrence, each with the location and the
\* qualifications of the lines between its first title line and the next
\* accepted position line.
C20_FlushProtocolAndOrder ==
  /\ [][ AtLine =>
           pe'.job_postings =
             IF /\ AcceptedLine(pe.pc, pe.cleaned_lines, pe.n)
                /\ pe.current_posting.position # ""
                /\ pe.current_posting.position \notin pe.seen_positions
             THEN Append(pe.job_postings, Closed(pe.current_posting))
             ELSE pe.job_postings ]_vars
  /\ [][ (pe.pc \in {"primary", "fallback"} /\ pe'.pc = "section") =>
           pe'.job_postings = PostingsFrom(pe.pc, pe.cleaned_lines, 1) ]_vars


(***************************************************************************)
(* Frame properties of the primary scan.                                   *)
(***************************************************************************)
\* C21: a position line that fails the English gate in the primary scan
\* changes nothing: the open candidate stays open and unchanged and is not
\* flushed, and the posting list, the seen titles, the English-preferred
\* title, the remote-preferred title and the remote flag are unchanged, even
\* if the rejected line signals remote work.
C21_RejectedLineChangesNothing ==
  [][ (/\ pe.pc = "primary" /\ pe.n <= Len(pe.cleaned_lines)
       /\ position_pattern(pe.cleaned_lines[pe.n])
       /\ ~is_english(pe.cleaned_lines[pe.n]))
      =>
        /\ pe'.current_posting = pe.current_posting
        /\ pe'.job_postings = pe.job_postings
        /\ pe'.seen_positions = pe.seen_positions
        /\ pe'.english_job_position = pe.english_job_position
        /\ pe'.remote_job_position = pe.remote_job_position
        /\ pe'.remote = pe.remote
        /\ pe'.location = pe.location
        /\ pe'.minimum_qualifications = pe.minimum_qualifications
        /\ pe'.pc = "primary" ]_vars

\* inside a listing a rejected line that signals remote work was read while
\* a candidate was open, and the candidate is still the open one, not flushed
C21_Witness ==
  /\ pe.pc = "primary"
  /\ pe.n > 2
  /\ pe.job_section
  /\ pe.cleaned_lines[pe.n - 1] = "Développeur Senior (Remote)"
  /\ pe.current_posting.position = "Data Analyst"
  /\ pe.job_postings = <<>>
  /\ ~pe.remote


\* C22: a location line met inside the listing before any position line of
\* the section has been accepted has no effect: it sets neither a candidate
\* location, nor the document-level location, nor the remote flag.
C22_LocationNeedsOpenCandidate ==
  [][ (/\ pe.pc = "primary" /\ pe.n <= Len(pe.cleaned_lines)
       /\ LocationRole("primary", pe.cleaned_lines, pe.n)
       /\ pe.current_posting.position = "") =>
        /\ pe'.current_posting = pe.current_posting
        /\ pe'.location = pe.location
        /\ pe'.remote = pe.remote ]_vars


(***************************************************************************)
(* The roles of the lines of a listing.                                    *)
(***************************************************************************)
\* the position pattern of a scan matches line k
PositionLine(scan, cl, k) ==
  IF scan = "primary" THEN position_pattern(cl[k])
  ELSE fallback_position_pattern(cl[k])

\* C23: each line of a listing gets at most one role, with priority position
\* over location over qualification (a location line is never a
\* qualification, a clock time is never a location, the paid-vacation line is
\* never a qualification), and the qualifications of a flushed posting are
\* exactly the qualification lines between its title line and the next
\* accepted position line, in order ('Unknown' if none).
C23_OneRolePerLine ==
  /\ [][ AtLine =>
           LET cl == pe.cleaned_lines
               line == cl[pe.n]
               LocationKept ==
                 /\ pe'.location = pe.location
                 /\ pe'.current_posting.location
                      \in {pe.current_posting.location, ""}
               QualificationsKept ==
                 /\ pe'.minimum_qualifications = pe.minimum_qualifications
                 /\ pe'.current_posting.qualifications
                      \in {pe.current_posting.qualifications, <<>>}
           IN /\ PositionLine(pe.pc, cl, pe.n)
                   => LocationKept /\ QualificationsKept
              /\ (location_pattern(line) /\ ~clock_time(line))
                   => QualificationsKept
              /\ (clock_time(line) /\ ~PositionLine(pe.pc, cl, pe.n))
                   => LocationKept
              /\ paid_vacation(line) => QualificationsKept ]_vars
  /\ [][ (pe.pc \in {"primary", "fallback"} /\ pe'.pc = "section") =>
           \A i \in 1..Len(pe'.job_postings) :
             \E k \in 1..Len(pe.cleaned_lines) :
               /\ FirstOccurrence(pe.pc, pe.cleaned_lines, k)
               /\ pe.cleaned_lines[k] = pe'.job_postings[i].position
               /\ pe'.job_postings[i].qualifications
                    = PostingAt(pe.pc, pe.cleaned_lines, k).qualifications
         ]_vars


(***************************************************************************)
(* The document-level fields of parse_email.                               *)
(***************************************************************************)
\* the metadata fields
MetaFields == {"from_header", "subject_text", "date_text"}

\* the first line the primary scan takes as a location, over the sections
RECURSIVE FirstLocation(_)
FirstLocation(sections) ==
  IF sections = <<>> THEN "Unknown"
  ELSE LET cl == CleanedLines(Head(sections))
           hits == {k \in 1..Len(cl) : LocationRole("primary", cl, k)}
       IN IF hits # {} THEN replace_place(cl[Min(hits)])
          ELSE FirstLocation(Tail(sections))

\* the first line the primary scan takes as a qualification
RECURSIVE FirstQualification(_)
FirstQualification(sections) ==
  IF sections = <<>> THEN <<"Unknown">>
  ELSE LET cl == CleanedLines(Head(sections))
           hits == {k \in 1..Len(cl) : QualificationRole("primary", cl, k)}
       IN IF hits # {} THEN <<cl[Min(hits)]>>
          ELSE FirstQualification(Tail(sections))

MetaLines ==
  { "Job alerts", "careers-noreply@google.com", "From: jobs@glassdoor.com",
    "Today", "9:30 AM", "Your job alert for Data Analyst has been created",
    Separator }

\* n filler lines, which no metadata predicate matches
Filler(n) == [k \in 1..n |-> "Hello world"]

\* documents whose last lines lie around the end of the first 50 lines, and
\* the documents of those lines alone
MetaContents ==
  { Filler(n) \o t : n \in {0, MetaWindow - 1, MetaWindow},
                     t \in SeqUpTo(MetaLines, MaxTail) }

InitMeta ==
  /\ \E content \in MetaContents, source \in ParseSources :
       pe = ParseStart(content, "glassdoor_email_1.txt", source)
  /\ ids = IdsIdle
  /\ batch = BatchIdle
  /\ cmb = CombineIdle

SpecMeta == InitMeta /\ [][Next]_vars

\* the predicate of the primary metadata pass for a field
PrimaryPredicate(field, line) ==
  CASE field = "from_header" -> email_address(line)
    [] field = "subject_text" ->
         line # "" /\ ~subject_excluded(line) /\ subject_keyword(line)
    [] field = "date_text" -> date_shape(line)

\* the relaxed predicate of the fallback metadata pass for a field
RelaxedPredicate(field, line) ==
  CASE field = "from_header" -> email_address(line)
    [] field = "subject_text" -> subject_keyword_fallback(line)
    [] field = "date_text" -> date_shape_fallback(line)

\* the value a field takes from a line
Taken(field, line) ==
  IF field = "from_header" THEN email_group(line) ELSE line

\* the warning of the fallback pass of a field
FallbackEvent(field) ==
  CASE field = "from_header" -> "Fallback sender identified"
    [] field = "subject_text" -> "Fallback subject identified"
    [] field = "date_text" -> "Fallback date identified"

\* C25: for each of sender, subject and date that is 'Unknown' when a section
\* is entered: if a line among the first 50 cleaned lines satisfies the
\* primary predicate the field is taken from the first such line and the
\* fallback pass does not run for it; otherwise the fallback pass takes the
\* first line of the whole section that satisfies the relaxed predicate; if
\* there is none the field stays 'Unknown'.
C25_TwoPassMetadata ==
  [][ (pe.pc = "section" /\ pe'.pc = "primary") =>
        LET cl == CleanedLines(Head(pe.sections))
        IN \A field \in MetaFields :
             pe[field] = "Unknown" =>
               LET first == {k \in 1..Len(cl) :
                               k <= MetaWindow /\ PrimaryPredicate(field, cl[k])}
                   second == {k \in 1..Len(cl) : RelaxedPredicate(field, cl[k])}
                   fell == \E e \in pe'.log \ pe.log : e[1] = FallbackEvent(field)
               IN IF first # {}
                  THEN pe'[field] = Taken(field, cl[Min(first)]) /\ ~fell
                  ELSE IF second # {}
                  THEN pe'[field] = Taken(field, cl[Min(second)]) /\ fell
                  ELSE pe'[field] = "Unknown" /\ ~fell ]_vars

\* a section was entered whose fifty-first line alone names a sender and
\* bears a subject keyword: both fields come from the fallback pass
C25_Witness ==
  /\ pe.pc = "primary"
  /\ Len(pe.cleaned_lines) > MetaWindow
  /\ pe.cleaned_lines[MetaWindow + 1] = "careers-noreply@google.com"
  /\ pe.from_header = "careers-noreply@google.com"
  /\ pe.subject_text = "careers-noreply@google.com"
  /\ <<"Fallback sender identified", "careers-noreply@google.com">> \in pe.log
  /\ pe.date_text = "Unknown"


\* the phrase 'Your job alert ... has been created' (line 397)
already_created(line) ==
  line \in {"Your job alert for Data Analyst has been created"}

\* C26: when the primary pass found no subject, a line with a job-related
\* keyword and the phrase 'Your job alert ... has been created' is selected
\* as subject by the fallback pass if it is the first keyword-bearing line of
\* the section; the primary pass never selects such a line.
C26_FallbackSubjectKeepsCreatedLine ==
  [][ (pe.pc = "section" /\ pe'.pc = "primary" /\ pe.subject_text = "Unknown")
        =>
        LET section == Head(pe.sections)
            first == {k \in 1..Len(section) :
                        /\ k <= MetaWindow
                        /\ ~already_created(section[k])
                        /\ PrimaryPredicate("subject_text", section[k])}
            keyword == {k \in 1..Len(section) :
                          subject_keyword_fallback(section[k])}
            fell == \E e \in pe'.log : e[1] = FallbackEvent("subject_text")
        IN /\ (first = {} /\ keyword # {}
                 /\ already_created(section[Min(keyword)]))
                => pe'.subject_text = section[Min(keyword)]
           /\ (already_created(pe'.subject_text)) => fell ]_vars


(***************************************************************************)
(* The warnings of parse_email.                                            *)
(***************************************************************************)
\* the warning for a metadata field left 'Unknown'
UnknownEvent(field) ==
  CASE field = "from_header" -> "Sender not identified"
    [] field = "subject_text" -> "Subject not identified"
    [] field = "date_text" -> "Date not identified"

\* C27: every position line rejected by the English gate, in the primary scan
\* and in the GoogleCareers fallback scan, every section in which no posting
\* was found (even when other sections of the document produced postings) and
\* every metadata field still 'Unknown' after both passes causes a warning,
\* and none of these raises an error.
C27_DiagnosticCompleteness ==
  /\ [][ (/\ AtLine
          /\ PositionLine(pe.pc, pe.cleaned_lines, pe.n)
          /\ ~is_english(pe.cleaned_lines[pe.n])
          /\ pe.pc = "primary" => InListing(pe.cleaned_lines, pe.n))
           => <<"Non-English position skipped", pe.cleaned_lines[pe.n]>>
                \in pe'.log ]_vars
  /\ [][ (pe.pc = "section" /\ pe'.pc = "primary") =>
           \A field \in MetaFields :
             pe'[field] = "Unknown"
               => <<UnknownEvent(field), pe.filename>> \in pe'.log ]_vars
  /\ []( pe.pc = "done" =>
           \A i \in 1..Len(NonEmptySections) :
             SectionScan(NonEmptySections[i]).job_postings = <<>>
               => \E e \in pe.log : e[1] \in { "No job postings found",
                                            "No job postings identified" } )
  /\ []( pe.pc = "raised" => NonEmptySections = <<>> )


(***************************************************************************)
(* The sections of a document.                                             *)
(***************************************************************************)
\* C28: a document is split at every separator line of its text into
\* sections, empty sections dropped and the order kept, and a document
\* without separator lines is one section; the outcome does not depend on
\* the file name of the document.
C28_SplitByContent ==
  pe.pc = "done" =>
    /\ NonEmptySections = SelectSeq(re_split(pe.content), LAMBDA s : s # <<>>)
    /\ \A filename \in Filenames :
         LET other == parse_email(pe.content, filename, pe.source)
         IN other.pc = "done" /\ other.result = pe.result


(***************************************************************************)
(* The representative title and the posting list.                          *)
(***************************************************************************)
\* C29: for every document, job_position is 'Unknown' if and only if no
\* posting was extracted, and whenever postings were extracted job_position
\* is the title of one of them.
C29_TitleAmongPostings ==
  pe.pc = "done" =>
    /\ pe.result.job_position = "Unknown" <=> pe.result.job_postings = <<>>
    /\ pe.result.job_postings # <<>> =>
         \E i \in 1..Len(pe.result.job_postings) :
           pe.result.job_postings[i].position = pe.result.job_position


(***************************************************************************)
(* The combined file as parse_email splits it, and a second run of         *)
(* combine_glassdoor_emails on the directory the first run left.           *)
(***************************************************************************)
\* section.strip(): the text without its leading and trailing blank lines
strip(section) ==
  LET full == {k \in 1..Len(section) : section[k] # ""}
  IN IF full = {} THEN <<>>
     ELSE SubSeq(section, Min(full), CHOOSE k \in full : \A j \in full : j <= k)

\* the sections parse_email iterates over for the text of the combined file
SplitSections(text) ==
  LET pieces == re_split(text)
  IN SelectSeq([i \in 1..Len(pieces) |-> strip(pieces[i])],
               LAMBDA section : section # <<>>)

\* the sections the parser sees in a dump directory
ParserSections(disk) ==
  IF output_file \in DOMAIN disk THEN SplitSections(disk[output_file])
  ELSE <<>>

\* the run ended without an error and combined some files
CombinedAll(c) ==
  /\ c.pc = "done"
  /\ c.glassdoor_files # <<>>
  /\ "Error combining Glassdoor emails" \notin c.log

\* the locals of a second run, with the sections the first run left
Rerun(c) ==
  [ pc |-> "list", disk |-> c.disk, original |-> c.disk,
    glassdoor_files |-> <<>>, i |-> 1, combined_content |-> <<>>,
    log |-> {}, before |-> ParserSections(c.disk) ]

\* the script is run again after a run that combined its files
CombineAgain ==
  /\ CombinedAll(cmb)
  /\ "before" \notin DOMAIN cmb
  /\ cmb' = Rerun(cmb)
  /\ UNCHANGED <<pe, ids, batch>>

NextCombineRuns == NextCombine \/ CombineAgain

SpecCombineRuns == InitCombine /\ [][NextCombineRuns]_vars

\* C30: after a run that combined the selected files, splitting the combined
\* file gives one section per non-empty original file, in the order they
\* were combined, each equal to the stripped text of its file; and a second
\* run on the directory the first left does not change the sections.
C30_CombineSplitRoundTrip ==
  CombinedAll(cmb) =>
    IF "before" \in DOMAIN cmb
    THEN ParserSections(cmb.disk) = cmb.before
    ELSE ParserSections(cmb.disk)
           = SelectSeq([i \in 1..Len(cmb.glassdoor_files) |->
                          strip(cmb.original[cmb.glassdoor_files[i]])],
                       LAMBDA section : section # <<>>)

====
